---- MODULE Spec2Model ----
(***************************************************************************)
(* Model of src/src/lib.rs: Split (an Iterator that reads a byte source in *)
(* blocks of `size` bytes and yields (context, cachet) pairs) and Merge    *)
(* (a Read that decrypts an iterator of pairs and streams the plaintext).  *)
(***************************************************************************)
EXTENDS Integers, Naturals, Sequences, FiniteSets, TLC

\* ------------------------------------------------------------------ bounds
MaxLen == 3        \* most bytes the source ever holds
MaxSize == 2       \* largest block size given to Split::new
MaxDest == 2       \* largest destination buffer given to Merge::read
MaxScript == 2     \* most scripted (short / failing) inner reads per next call
MaxPairs == 3      \* most pairs in an iterator handed to Merge::new directly

Byte == {0, 1}     \* the byte values (two stand for the 256)
NumBytes == Cardinality(Byte)
Roots == {1, 2}    \* the root secrets of the KeyTrees in play

Min(a, b) == IF a < b THEN a ELSE b

\* all sequences over S of length 0..n
SeqUpTo(S, n) == UNION { [1 .. k -> S] : k \in 0 .. n }

Take(s, k) == SubSeq(s, 1, k)
Drop(s, k) == SubSeq(s, k + 1, Len(s))

\* ------------------------------------------------- external collaborators
\* sha256::hash: deterministic and collision free on the modelled domain
\* (the sequence read as a number in bijective base NumBytes).
RECURSIVE Hash(_)
Hash(data) ==
    IF data = <<>> THEN 0
    ELSE Hash(Take(data, Len(data) - 1)) * NumBytes + data[Len(data)] + 1

\* keytree: the per-context key derived from the root secret
Derive(root, ctx) == <<root, ctx>>

\* keystream byte of a derived key
Pad(key) == (key[1] + key[2]) % NumBytes

\* authentication tag of a ciphertext under a derived key
Mac(key, ct) == <<key[1], key[2], Hash(ct)>>

\* KeyTree::derive_and_encrypt, when it succeeds: the Cachet
DeriveAndEncrypt(root, ctx, data) ==
    LET key == Derive(root, ctx)
        ct == [i \in 1 .. Len(data) |-> (data[i] + Pad(key)) % NumBytes]
    IN  [ct |-> ct, tag |-> Mac(key, ct)]

\* KeyTree::derive_and_decrypt: fails unless the cachet was made under the
\* key derived from ctx and is intact
DeriveAndDecrypt(root, ctx, cachet) ==
    LET key == Derive(root, ctx)
    IN  IF cachet.tag = Mac(key, cachet.ct)
        THEN [ok |-> TRUE,
              data |-> [i \in 1 .. Len(cachet.ct) |->
                           (cachet.ct[i] + NumBytes - Pad(key)) % NumBytes]]
        ELSE [ok |-> FALSE, data |-> <<>>]

\* ------------------------------------------------------------------ state
VARIABLES
    phase,      \* "start" | "split" | "store" | "merge": what the caller holds
    B,          \* every byte the source has ever held, in order
    source,     \* Split.read: the bytes of the source not yet read
    size,       \* Split.size
    skey,       \* Split.key: root of the KeyTree the Split borrows
    pairs,      \* the (context, cachet) pairs collected from the Split
    blocks,     \* for each pair the Split produced: the bytes it encrypted
    lastNext,   \* what the latest Split::next call did
    splitHist,  \* what the Split and its source have done so far
    mkey,       \* Merge.key
    ipos,       \* Merge.src: number of pairs the iterator has handed out
    gaps,       \* Merge.src: positions where the iterator says None once
    curr,       \* Merge.curr
    cidx,       \* Merge.cidx
    lastRead,   \* what the latest Merge::read call did
    out,        \* bytes returned by read calls up to the first Ok(0)
    mergeHist   \* what the Merge has done so far

vars == <<phase, B, source, size, skey, pairs, blocks, lastNext, splitHist,
          mkey, ipos, gaps, curr, cidx, lastRead, out, mergeHist>>

splitVars == <<B, source, size, skey, blocks, lastNext, splitHist>>
mergeVars == <<mkey, ipos, gaps, curr, cidx, lastRead, out, mergeHist>>

\* --------------------------------------------------------------- the source
\* One inner read of the source as the caller of next supplies it: it hands
\* over at most n bytes ("data"), or fails with ErrorKind::Interrupted
\* ("intr"), or fails with another error kind ("err").
ReadOutcome ==
    [kind : {"data"}, n : 1 .. MaxSize - 1] \cup [kind : {"intr", "err"}, n : {0}]

\* The scripted reads of one next call; no read follows a read that failed
\* with "err", so "err" is last where it occurs.
Scripts ==
    { s \in SeqUpTo(ReadOutcome, MaxScript) :
        \A i \in 1 .. Len(s) - 1 : s[i].kind # "err" }

RECURSIVE ReadToEnd(_, _, _, _, _)

\* mutant: one read of the source instead of read_to_end
ReadToEnd_SingleRead(buffer, src, limit, script, seen) ==
    IF limit = 0
    THEN [ok |-> TRUE, buffer |-> buffer, rest |-> src, seen |-> seen,
          left |-> <<>>]
    ELSE IF script # <<>> /\ Head(script).kind # "data"
    THEN [ok |-> FALSE, buffer |-> buffer, rest |-> src, left |-> <<>>,
          seen |-> [seen EXCEPT !.failed = TRUE]]
    ELSE LET ask == IF script = <<>> THEN limit ELSE Min(Head(script).n, limit)
             k == Min(ask, Len(src))
         IN  [ok |-> TRUE, buffer |-> buffer \o Take(src, k), rest |-> Drop(src, k),
              left |-> <<>>,
              seen |-> [seen EXCEPT !.zero = (k = 0), !.short = (0 < k /\ k < limit)]]

\* mutant: a read that fails with any error kind is repeated
ReadToEnd_RetryErr(buffer, src, limit, script, seen) ==
    IF limit = 0
    THEN [ok |-> TRUE, buffer |-> buffer, rest |-> src, seen |-> seen,
          left |-> script]
    ELSE IF script # <<>> /\ Head(script).kind \in {"err", "intr"}
    THEN ReadToEnd(buffer, src, limit, Tail(script),
                   [seen EXCEPT !.retried = @ \/ Head(script).kind = "intr",
                                !.failed = @ \/ Head(script).kind = "err"])
    ELSE LET ask == IF script = <<>> THEN limit ELSE Min(Head(script).n, limit)
             k == Min(ask, Len(src))
             left == IF script = <<>> THEN script ELSE Tail(script)
         IN  IF k = 0
             THEN [ok |-> TRUE, buffer |-> buffer, rest |-> src, left |-> left,
                   seen |-> [seen EXCEPT !.zero = TRUE, !.again = @ \/ seen.failed]]
             ELSE ReadToEnd(buffer \o Take(src, k), Drop(src, k), limit - k, left,
                            [seen EXCEPT !.short = @ \/ k < limit,
                                         !.again = @ \/ seen.failed])

\* self.read.by_ref().take(capacity).read_to_end(&mut buffer).
\* Take::read returns Ok(0) without reading the source once limit bytes have
\* passed; read_to_end appends until a read returns Ok(0), retries a read
\* that fails with Interrupted and returns any other failure.  Reads beyond
\* the script hand over as much as is asked for; left is the part of the
\* script the call never came to.
ReadToEnd(buffer, src, limit, script, seen) ==
    IF limit = 0
    THEN [ok |-> TRUE, buffer |-> buffer, rest |-> src, seen |-> seen,
          left |-> script]
    ELSE IF script # <<>> /\ Head(script).kind = "err"
    THEN [ok |-> FALSE, buffer |-> buffer, rest |-> src, left |-> Tail(script),
          seen |-> [seen EXCEPT !.failed = TRUE]]
    ELSE IF script # <<>> /\ Head(script).kind = "intr"
    THEN ReadToEnd(buffer, src, limit, Tail(script), [seen EXCEPT !.retried = TRUE])
    ELSE LET ask == IF script = <<>> THEN limit ELSE Min(Head(script).n, limit)
             k == Min(ask, Len(src))
             left == IF script = <<>> THEN script ELSE Tail(script)
         IN  IF k = 0
             THEN [ok |-> TRUE, buffer |-> buffer, rest |-> src, left |-> left,
                   seen |-> [seen EXCEPT !.zero = TRUE, !.again = @ \/ seen.failed]]
             ELSE ReadToEnd(buffer \o Take(src, k), Drop(src, k), limit - k, left,
                            [seen EXCEPT !.short = @ \/ k < limit,
                                         !.again = @ \/ seen.failed])

\* what the inner reads of one read_to_end did: short, a read handed over
\* fewer bytes than were asked for; zero, a read returned Ok(0); retried, a
\* read failed with Interrupted and was repeated; failed, a read failed with
\* another error kind; again, the source was read after such a failure
NothingSeen == [short |-> FALSE, zero |-> FALSE, retried |-> FALSE,
                failed |-> FALSE, again |-> FALSE]

\* -------------------------------------------------------------------- Split
\* mutant: the key is derived from the hash of an empty buffer, not from
\* the context that goes into the pair
SplitEncrypt_WrongContext(root, data, encOk) ==
    LET hash == Hash(data)
    IN  IF encOk
        THEN [ok |-> TRUE,
              pair |-> [ctx |-> hash,
                        cachet |-> DeriveAndEncrypt(root, Hash(<<>>), data)]]
        ELSE [ok |-> FALSE, pair |-> [ctx |-> hash, cachet |-> [ct |-> <<>>, tag |-> <<>>]]]

\* Split::encrypt: hash the block, encrypt it under the key derived from
\* the hash; encOk is whether derive_and_encrypt succeeds.
SplitEncrypt(root, data, encOk) ==
    LET hash == Hash(data)
    IN  IF encOk
        THEN [ok |-> TRUE,
              pair |-> [ctx |-> hash, cachet |-> DeriveAndEncrypt(root, hash, data)]]
        ELSE [ok |-> FALSE, pair |-> [ctx |-> hash, cachet |-> [ct |-> <<>>, tag |-> <<>>]]]

\* mutant: the buffer holds one byte more than the block size
Capacity_OffByOne(sz) == sz + 1

\* Vec::with_capacity(self.size).capacity(): the limit given to take
Capacity(sz) == sz

\* mutant: a read shorter than the block size ends the sequence
NextResult_DropShort(src, sz, root, script, encOk) ==
    LET r == ReadToEnd(<<>>, src, sz, script, NothingSeen)
        c == Len(r.buffer)
        e == SplitEncrypt(root, Take(r.buffer, c), encOk)
    IN  IF ~r.ok
        THEN [res |-> "ioerr", rest |-> r.rest, read |-> r, enc |-> e, tried |-> FALSE]
        ELSE IF c < sz \/ c = 0
        THEN [res |-> "none", rest |-> r.rest, read |-> r, enc |-> e, tried |-> FALSE]
        ELSE IF ~e.ok
        THEN [res |-> "encerr", rest |-> r.rest, read |-> r, enc |-> e, tried |-> TRUE]
        ELSE [res |-> "ok", rest |-> r.rest, read |-> r, enc |-> e, tried |-> TRUE]

\* mutant: an encryption failure ends the sequence instead of being yielded
NextResult_EncNone(src, sz, root, script, encOk) ==
    LET r == ReadToEnd(<<>>, src, sz, script, NothingSeen)
        c == Len(r.buffer)
        e == SplitEncrypt(root, Take(r.buffer, c), encOk)
    IN  IF ~r.ok
        THEN [res |-> "ioerr", rest |-> r.rest, read |-> r, enc |-> e, tried |-> FALSE]
        ELSE IF c = 0
        THEN [res |-> "none", rest |-> r.rest, read |-> r, enc |-> e, tried |-> FALSE]
        ELSE IF ~e.ok
        THEN [res |-> "none", rest |-> r.rest, read |-> r, enc |-> e, tried |-> TRUE]
        ELSE [res |-> "ok", rest |-> r.rest, read |-> r, enc |-> e, tried |-> TRUE]

\* mutant: a call that fails leaves the bytes it read in the source
NextResult_KeepOnError(src, sz, root, script, encOk) ==
    LET r == ReadToEnd(<<>>, src, sz, script, NothingSeen)
        c == Len(r.buffer)
        e == SplitEncrypt(root, Take(r.buffer, c), encOk)
    IN  IF ~r.ok
        THEN [res |-> "ioerr", rest |-> src, read |-> r, enc |-> e, tried |-> FALSE]
        ELSE IF c = 0
        THEN [res |-> "none", rest |-> r.rest, read |-> r, enc |-> e, tried |-> FALSE]
        ELSE IF ~e.ok
        THEN [res |-> "encerr", rest |-> src, read |-> r, enc |-> e, tried |-> TRUE]
        ELSE [res |-> "ok", rest |-> r.rest, read |-> r, enc |-> e, tried |-> TRUE]

\* The whole of Split::next as a function of the Split and its inputs;
\* tried is whether Split::encrypt was called.
NextResult(src, sz, root, script, encOk) ==
    LET r == ReadToEnd(<<>>, src, Capacity(sz), script, NothingSeen)
        c == Len(r.buffer)
        e == SplitEncrypt(root, Take(r.buffer, c), encOk)
    IN  IF ~r.ok
        THEN [res |-> "ioerr", rest |-> r.rest, read |-> r, enc |-> e, tried |-> FALSE]
        ELSE IF c = 0
        THEN [res |-> "none", rest |-> r.rest, read |-> r, enc |-> e, tried |-> FALSE]
        ELSE IF ~e.ok
        THEN [res |-> "encerr", rest |-> r.rest, read |-> r, enc |-> e, tried |-> TRUE]
        ELSE [res |-> "ok", rest |-> r.rest, read |-> r, enc |-> e, tried |-> TRUE]

\* Split::new: stores its arguments, whatever the size
SplitNew(sz, root) ==
    /\ phase = "start"
    /\ phase' = "split"
    /\ size' = sz
    /\ skey' = root
    /\ UNCHANGED <<B, source, pairs, blocks, lastNext, splitHist>>
    /\ UNCHANGED mergeVars

\* One call of Split::next by a caller that pushes every Ok item onto its
\* Vec (tests::merge_test, lines 119-122).  The inputs are the reads the
\* call makes (the whole script is used) and, where Split::encrypt is
\* called, whether derive_and_encrypt succeeds.
SplitNext(script, encOk) ==
    /\ phase = "split"
    /\ \E r \in {NextResult(source, size, skey, script, encOk)} :
           /\ r.read.left = <<>>
           /\ encOk \/ r.tried
           /\ source' = r.rest
           /\ pairs' = IF r.res = "ok" THEN Append(pairs, r.enc.pair) ELSE pairs
           /\ blocks' = IF r.res = "ok" THEN Append(blocks, r.read.buffer) ELSE blocks
           /\ lastNext' = [res |-> r.res, got |-> Len(r.read.buffer),
                           seen |-> r.read.seen,
                           made |-> IF r.res = "ok" THEN 1 ELSE 0,
                           encFailed |-> r.tried /\ ~r.enc.ok]
           /\ splitHist' = [splitHist EXCEPT
                  !.none = @ \/ r.res = "none",
                  !.err = @ \/ r.res \in {"ioerr", "encerr"},
                  !.encerr = @ \/ (r.tried /\ ~r.enc.ok),
                  !.lost = @ + (IF r.res \in {"ioerr", "encerr"}
                                THEN Len(r.read.buffer) ELSE 0)]
    /\ UNCHANGED <<phase, B, size, skey>>
    /\ UNCHANGED mergeVars

\* A drained source gains a byte between two next calls (a file that is
\* still being written): its reads returned Ok(0) and now return data again.
\* A byte added before the source is drained is a byte of a longer B.
SourceAppend(b) ==
    /\ phase = "split"
    /\ source = <<>>
    /\ Len(B) < MaxLen
    /\ B' = Append(B, b)
    /\ source' = Append(source, b)
    /\ splitHist' = [splitHist EXCEPT !.appended = TRUE]
    /\ UNCHANGED <<phase, size, skey, pairs, blocks, lastNext>>
    /\ UNCHANGED mergeVars

\* tests::merge_test, lines 119-123: the for loop over the Split has ended
\* (next returned None) with every item Ok, and the caller keeps its Vec.
Collect ==
    /\ phase = "split"
    /\ lastNext.res = "none"
    /\ ~splitHist.err
    /\ phase' = "store"
    /\ UNCHANGED <<pairs>>
    /\ UNCHANGED splitVars
    /\ UNCHANGED mergeVars

\* -------------------------------------------------------------------- Merge
\* The Merge as a value: its fields and the state of the iterator it borrows
MergeState == [curr |-> curr, cidx |-> cidx, ipos |-> ipos, gaps |-> gaps]

\* Merge::new: empty current block, cursor 0, over the caller's iterator
MergeNew(root, g) ==
    /\ phase = "store"
    /\ phase' = "merge"
    /\ mkey' = root
    /\ curr' = <<>>
    /\ cidx' = 0
    /\ ipos' = 0
    /\ gaps' = g
    /\ UNCHANGED <<pairs, lastRead, out, mergeHist>>
    /\ UNCHANGED splitVars

\* Merge::decrypt
MergeDecrypt(root, pair) == DeriveAndDecrypt(root, pair.ctx, pair.cachet)

\* mutant: the destination counts as full one byte early
DestFull_OffByOne(bidx, destLen) == bidx + 1 >= destLen

\* line 30: the destination holds no more
DestFull(bidx, destLen) == bidx = destLen

\* mutant: the block counts as used up one byte early
BlockConsumed_OffByOne(m) == m.cidx + 1 >= Len(m.curr)

\* line 34: the current block is used up
BlockConsumed(m) == m.cidx = Len(m.curr)

\* line 35, self.src.next(): None at a gap (once) and at the end
IterNext(items, m) ==
    IF m.ipos \in m.gaps
    THEN [some |-> FALSE, m |-> [m EXCEPT !.gaps = @ \ {m.ipos}]]
    ELSE IF m.ipos < Len(items)
    THEN [some |-> TRUE, m |-> [m EXCEPT !.ipos = @ + 1]]
    ELSE [some |-> FALSE, m |-> m]

\* mutant: the new block is stored but the cursor is not reset
Pulled_NoReset(m, data) == [m EXCEPT !.curr = data]

\* lines 41-42 when decrypt succeeded: the new block, cursor 0
Pulled(m, data) == [m EXCEPT !.curr = data, !.cidx = 0]

\* mutant: a failed decrypt leaves the undecrypted bytes as the block
PullFailed_Garbage(m, pair) == [m EXCEPT !.curr = pair.cachet.ct, !.cidx = 0]

\* mutant: a failed decrypt rewinds the cursor to the start of the block
PullFailed_Rewind(m, pair) == [m EXCEPT !.cidx = 0]

\* line 41 when decrypt failed: `?` returns before self.curr is assigned
PullFailed(m, pair) == m

\* mutant: the copy reads self.curr[0] instead of self.curr[self.cidx]
CopyByte_First(m, acc) ==
    [m |-> [m EXCEPT !.cidx = @ + 1],
     acc |-> [acc EXCEPT !.buff = Append(@, m.curr[1]),
                         !.from = Append(@, m.ipos)]]

\* lines 46-48: one byte goes from the block to the destination
CopyByte(m, acc) ==
    [m |-> [m EXCEPT !.cidx = @ + 1],
     acc |-> [acc EXCEPT !.buff = Append(@, m.curr[m.cidx + 1]),
                         !.from = Append(@, m.ipos)]]

RECURSIVE MergeRead(_, _, _, _, _)

\* mutant: the block-consumed check comes before the destination-full check,
\* so a call pulls the next pair even when it has no room for a byte
MergeRead_EagerPull(root, items, m, destLen, acc) ==
    LET a == [acc EXCEPT !.safe = @ /\ 0 <= m.cidx /\ m.cidx <= Len(m.curr)]
    IN  IF BlockConsumed(m)
        THEN LET nx == IterNext(items, m)
             IN  IF ~nx.some
                 THEN [res |-> "ok", m |-> nx.m, acc |-> a, none |-> TRUE, bad |-> 0]
                 ELSE LET d == MergeDecrypt(root, items[nx.m.ipos])
                          acc2 == [a EXCEPT !.pulled = Append(@, nx.m.ipos),
                                            !.lazy = @ /\ Len(a.buff) < destLen]
                      IN  IF ~d.ok
                          THEN [res |-> "err", m |-> PullFailed(nx.m, items[nx.m.ipos]),
                                acc |-> acc2, none |-> FALSE, bad |-> nx.m.ipos]
                          ELSE MergeRead(root, items, Pulled(nx.m, d.data), destLen, acc2)
        ELSE IF DestFull(Len(a.buff), destLen)
        THEN [res |-> "ok", m |-> m, acc |-> a, none |-> FALSE, bad |-> 0]
        ELSE LET c == CopyByte(m, a)
             IN  MergeRead(root, items, c.m, destLen, c.acc)

\* Merge::read on a destination of destLen bytes.  acc is the call's local
\* state: buff the bytes written so far (bidx = Len(buff)), from the pair
\* each came from, pulled the pairs taken from the iterator in this call,
\* safe whether 0 <= cidx <= len(curr) held at the top of every turn of the
\* loop, lazy whether every pair was taken with the block used up and room
\* left in the destination.  Indexing self.curr or buff out of bounds panics.
MergeRead(root, items, m, destLen, acc) ==
    LET a == [acc EXCEPT !.safe = @ /\ 0 <= m.cidx /\ m.cidx <= Len(m.curr)]
    IN  IF DestFull(Len(a.buff), destLen)
        THEN [res |-> "ok", m |-> m, acc |-> a, none |-> FALSE, bad |-> 0]
        ELSE IF BlockConsumed(m)
        THEN LET nx == IterNext(items, m)
             IN  IF ~nx.some
                 THEN [res |-> "ok", m |-> nx.m, acc |-> a, none |-> TRUE, bad |-> 0]
                 ELSE LET d == MergeDecrypt(root, items[nx.m.ipos])
                          acc2 == [a EXCEPT !.pulled = Append(@, nx.m.ipos),
                                            !.lazy = @ /\ m.cidx = Len(m.curr)
                                                       /\ Len(a.buff) < destLen]
                      IN  IF ~d.ok
                          THEN [res |-> "err", m |-> PullFailed(nx.m, items[nx.m.ipos]),
                                acc |-> acc2, none |-> FALSE, bad |-> nx.m.ipos]
                          ELSE MergeRead(root, items, Pulled(nx.m, d.data), destLen, acc2)
        ELSE IF m.cidx >= Len(m.curr) \/ Len(a.buff) >= destLen
        THEN [res |-> "panic", m |-> m, acc |-> a, none |-> FALSE, bad |-> 0]
        ELSE LET c == CopyByte(m, a)
             IN  MergeRead(root, items, c.m, destLen, c.acc)

\* the local state of a read call as it starts
NoAcc == [buff |-> <<>>, from |-> <<>>, pulled |-> <<>>, safe |-> TRUE,
          lazy |-> TRUE]

Range(s) == { s[i] : i \in 1 .. Len(s) }

\* One call of Merge::read by a caller that appends the bytes of every
\* Ok(n) to its output until the first Ok(0) (tests::merge_test, 129-137).
Read(destLen) ==
    /\ phase = "merge"
    /\ \E r \in {MergeRead(mkey, pairs, MergeState, destLen, NoAcc)} :
       LET n == Len(r.acc.buff)
       IN  /\ curr' = r.m.curr
           /\ cidx' = r.m.cidx
           /\ ipos' = r.m.ipos
           /\ gaps' = r.m.gaps
           /\ lastRead' = [res |-> r.res, n |-> n, destLen |-> destLen,
                           none |-> r.none, pulled |-> r.acc.pulled,
                           safe |-> r.acc.safe, lazy |-> r.acc.lazy]
           /\ out' = IF r.res = "ok" /\ ~mergeHist.zero THEN out \o r.acc.buff ELSE out
           /\ mergeHist' = [mergeHist EXCEPT
                  !.zero = @ \/ (r.res = "ok" /\ n = 0),
                  !.err = @ \/ r.res = "err",
                  !.emptyDest = @ \/ destLen = 0,
                  !.gapHit = @ \/ r.m.gaps # gaps,
                  !.sawNone = @ \/ r.none,
                  !.pulls = @ \o r.acc.pulled,
                  !.copied = @ \o r.acc.buff,
                  !.returned = @ + (IF r.res = "ok" THEN n ELSE 0),
                  !.unreported = @ + (IF r.res = "ok" THEN 0 ELSE n),
                  !.origins = @ \cup Range(r.acc.from),
                  !.failed = @ \cup (IF r.res = "err" THEN {r.bad} ELSE {}),
                  !.late = @ \cup (IF mergeHist.err /\ r.res = "ok"
                                   THEN Range(r.acc.from) ELSE {})]
    /\ UNCHANGED <<phase, mkey, pairs>>
    /\ UNCHANGED splitVars

\* ------------------------------------------------------------ specification
NoNext == [res |-> "init", got |-> 0, seen |-> NothingSeen, made |-> 0,
           encFailed |-> FALSE]
NoRead == [res |-> "init", n |-> 0, destLen |-> 0, none |-> FALSE,
           pulled |-> <<>>, safe |-> TRUE, lazy |-> TRUE]
NoSplitHist == [none |-> FALSE, err |-> FALSE, appended |-> FALSE,
                encerr |-> FALSE, lost |-> 0]
NoMergeHist == [zero |-> FALSE, err |-> FALSE, emptyDest |-> FALSE,
                gapHit |-> FALSE, origins |-> {}, failed |-> {}, late |-> {},
                sawNone |-> FALSE, pulls |-> <<>>, returned |-> 0,
                unreported |-> 0, copied |-> <<>>]

InitMergeVars ==
    /\ mkey = 1
    /\ ipos = 0
    /\ gaps = {}
    /\ curr = <<>>
    /\ cidx = 0
    /\ lastRead = NoRead
    /\ out = <<>>
    /\ mergeHist = NoMergeHist

\* A caller about to build a Split over a source that holds B.
Init ==
    /\ phase = "start"
    /\ B \in SeqUpTo(Byte, MaxLen)
    /\ source = B
    /\ size = 0
    /\ skey = 1
    /\ pairs = <<>>
    /\ blocks = <<>>
    /\ lastNext = NoNext
    /\ splitHist = NoSplitHist
    /\ InitMergeVars

\* The program of tests::merge_test for any source, block size and
\* destination sizes: split, collect, merge with the same KeyTree over the
\* Vec's iterator (slice::Iter, which has no gaps).  KeyTrees differ only
\* in their root, so the test's one KeyTree is root 1.
Next ==
    \/ \E sz \in 0 .. MaxSize : SplitNew(sz, 1)
    \/ \E script \in Scripts, encOk \in BOOLEAN : SplitNext(script, encOk)
    \/ \E b \in Byte : SourceAppend(b)
    \/ Collect
    \/ MergeNew(skey, {})
    \/ \E destLen \in 0 .. MaxDest : Read(destLen)

Spec == Init /\ [][Next]_vars

\* ------------------------------------------------- Merge over any iterator
\* The plaintexts of the pairs handed to a Merge directly
PlainBlocks == {<<>>, <<1>>, <<0, 1>>}

Good(root, data) == SplitEncrypt(root, data, TRUE).pair

\* a pair whose cachet was altered after encryption
Tampered(pair) == [pair EXCEPT !.cachet.ct[1] = (@ + 1) % NumBytes]

\* Pairs a caller can hold: made by Split::encrypt under the KeyTree the
\* Merge will use (root 1), made under another KeyTree, or altered.
PairChoices ==
    { Good(1, d) : d \in PlainBlocks }
        \cup { Good(2, <<1>>) } \cup { Tampered(Good(1, <<1, 0>>)) }

\* A caller that holds any sequence of pairs and is about to build a Merge.
InitMerge ==
    /\ phase = "store"
    /\ B = <<>>
    /\ source = <<>>
    /\ size = 0
    /\ skey = 1
    /\ pairs \in SeqUpTo(PairChoices, MaxPairs)
    /\ blocks = <<>>
    /\ lastNext = NoNext
    /\ splitHist = NoSplitHist
    /\ InitMergeVars

GapChoices == {{}} \cup { {p} : p \in 0 .. Len(pairs) }

NextMerge ==
    \/ \E g \in GapChoices : MergeNew(1, g)
    \/ \E destLen \in 0 .. MaxDest : Read(destLen)

SpecMerge == InitMerge /\ [][NextMerge]_vars

\* ------------------------------------------------------------------ claims
CeilDiv(a, b) == (a + b - 1) \div b

RECURSIVE Flatten(_)
Flatten(ss) == IF ss = <<>> THEN <<>> ELSE Head(ss) \o Flatten(Tail(ss))

\* what pair i decrypts to under the Merge's KeyTree
Plain(i) == MergeDecrypt(mkey, pairs[i])

AllDecrypt == \A i \in 1 .. Len(pairs) : Plain(i).ok

\* the Split ran to None over a source that held B from the start and never
\* failed, with every block encrypted
SplitClean == splitHist.none /\ ~splitHist.err /\ ~splitHist.appended

\* the caller read until the first Ok(0) and never passed an empty buffer
ReadToZero == phase = "merge" /\ mergeHist.zero /\ ~mergeHist.emptyDest

\* C1: round trip.  With a positive block size and neither source nor key
\* service failing, the bytes read from a Merge over the pairs of a Split,
\* up to the first Ok(0), are exactly the bytes of the source.
C1_RoundTrip ==
    (ReadToZero /\ SplitClean /\ size > 0) => out = B

C1_Witness ==
    /\ ReadToZero /\ SplitClean /\ size = 2
    /\ Len(B) = 3 /\ B[1] # B[2]
    /\ Len(pairs) = 2 /\ out = B

\* C2: chunk count.  A Split with positive block size that ran to None over
\* a finite source holding B, without failures, produced ceil(len(B)/size)
\* pairs, and none at all when B is empty.
C2_ChunkCount ==
    (SplitClean /\ size > 0) =>
        /\ Len(pairs) = CeilDiv(Len(B), size)
        /\ (Len(B) = 0 => Len(pairs) = 0)

C2_Witness ==
    /\ SplitClean /\ size = 2 /\ Len(B) = 3 /\ Len(pairs) = 2

\* C3: block contents and order.  Without failures the i-th pair of a Split
\* over a finite source holding B encrypts B[i*S .. min((i+1)*S, len(B))]
\* (0-based i), so only the last block can be shorter than S.
C3_BlockLaw ==
    (phase = "split" /\ ~splitHist.err /\ ~splitHist.appended /\ size > 0) =>
        \A i \in 1 .. Len(pairs) :
            LET want == SubSeq(B, (i - 1) * size + 1, Min(i * size, Len(B)))
                got == MergeDecrypt(skey, pairs[i])
            IN  /\ blocks[i] = want
                /\ got.ok /\ got.data = want
                /\ (i < Len(pairs) => Len(blocks[i]) = size)
                /\ 1 <= Len(blocks[i]) /\ Len(blocks[i]) <= size

C3_Witness ==
    /\ phase = "split" /\ ~splitHist.err /\ ~splitHist.appended
    /\ size = 2 /\ Len(B) = 3 /\ Len(pairs) = 2
    /\ Len(blocks[1]) = 2 /\ Len(blocks[2]) = 1

\* C4: a Split with block size 0 cannot exist (Split::new refuses size 0).
C4_ZeroSizeRejected ==
    phase = "split" => size > 0

\* C5: destination sizing.  Over a sequence of pairs that all decrypt, the
\* bytes returned up to the first Ok(0) are the concatenation of the
\* decrypted blocks, whatever non-empty destination sizes the calls used.
C5_DestSizing ==
    (ReadToZero /\ AllDecrypt /\ ~mergeHist.gapHit) =>
        out = Flatten([i \in 1 .. Len(pairs) |-> Plain(i).data])

C5_Witness ==
    /\ ReadToZero /\ AllDecrypt /\ ~mergeHist.gapHit
    /\ Len(pairs) = 3 /\ Len(out) = 4
    /\ lastRead.destLen = 1

\* C6: short reads.  A next call that no read failure ended has read
\* block_size bytes unless a read of the source returned Ok(0); so without
\* failures the blocks are the consecutive size-byte slices of what was
\* read, however the source chopped its reads.
C6_ShortReads ==
    /\ lastNext.res \in {"ok", "encerr", "none"} =>
           (lastNext.got = size \/ lastNext.seen.zero)
    /\ (phase = "split" /\ ~splitHist.err /\ ~splitHist.appended /\ size > 0) =>
           /\ Flatten(blocks) \o source = B
           /\ \A i \in 1 .. Len(blocks) :
                  Len(blocks[i]) = size \/ (i = Len(blocks) /\ source = <<>>)

C6_Witness ==
    /\ lastNext.res = "ok" /\ lastNext.seen.short
    /\ size = 2 /\ lastNext.got = 2 /\ source # <<>>

\* C7: read fills the destination.  Ok(n) has n = len(dest) unless the
\* iterator said None in that call with the block used up; so Ok(0) on a
\* non-empty destination means None, and an empty block ends no call.
C7_FillsDest ==
    lastRead.res = "ok" =>
        /\ lastRead.n = lastRead.destLen \/ (lastRead.none /\ cidx = Len(curr))
        /\ (lastRead.n = 0 /\ lastRead.destLen > 0) => lastRead.none

C7_Witness ==
    /\ lastRead.res = "ok" /\ ~lastRead.none
    /\ lastRead.destLen = 2 /\ lastRead.n = 2
    /\ Len(pairs) = 3 /\ ipos = 3
    /\ Plain(2).ok /\ Plain(2).data = <<>>
    /\ mergeHist.origins = {1, 3}

\* C8: all or nothing.  Every pair taken from the iterator that does not
\* decrypt made its read call return an error, and no byte written to any
\* destination comes from a pair that does not decrypt.
C8_AllOrNothing ==
    phase = "merge" =>
        /\ mergeHist.failed = { i \in 1 .. ipos : ~Plain(i).ok }
        /\ \A i \in mergeHist.origins : Plain(i).ok
        /\ lastRead.res = "err" => (ipos > 0 /\ ~Plain(ipos).ok)

C8_Witness ==
    /\ phase = "merge" /\ lastRead.res = "ok" /\ lastRead.n > 0
    /\ mergeHist.failed = {2} /\ mergeHist.origins = {1, 3}

\* C9: no skipping.  After a read call failed on pair k, no later read call
\* returns bytes of a pair after k.
C9_NoSkip ==
    \A k \in mergeHist.failed : \A j \in mergeHist.late : j <= k

\* C10: exhaustion is permanent.  Once a next call has returned None, the
\* latest next call has returned None.
C10_ExhaustionPermanent ==
    splitHist.none => lastNext.res = "none"

C13_EncErrNotFused ==
    /\ lastNext.encFailed =>
           (lastNext.res = "encerr" /\ lastNext.got > 0 /\ lastNext.made = 0)
    /\ lastNext.res = "encerr" => lastNext.encFailed
    /\ lastNext.res = "none" =>
           /\ lastNext.got = 0 /\ ~lastNext.seen.failed
           /\ lastNext.seen.zero \/ size = 0

C13_Witness ==
    /\ splitHist.encerr /\ ~splitHist.appended
    /\ lastNext.res = "ok" /\ Len(pairs) = 1 /\ splitHist.lost = 2
    /\ Len(B) = 3 /\ blocks[1] = <<B[3]>>

\* C14: content addressing.  The context of every pair a Split produced is
\* the hash of the block it encrypted and the context its cachet was
\* encrypted under: equal blocks have equal contexts, and the pair decrypts
\* with its own context, under the same KeyTree, to that block.
C14_ContentAddressed ==
    /\ Len(pairs) = Len(blocks)
    /\ \A i \in 1 .. Len(pairs) :
           /\ pairs[i].ctx = Hash(blocks[i])
           /\ pairs[i].cachet = DeriveAndEncrypt(skey, pairs[i].ctx, blocks[i])
           /\ MergeDecrypt(skey, pairs[i]) = [ok |-> TRUE, data |-> blocks[i]]
           /\ \A j \in 1 .. Len(pairs) :
                  blocks[i] = blocks[j] => pairs[i].ctx = pairs[j].ctx

C14_Witness ==
    /\ phase = "split" /\ size = 1 /\ Len(pairs) = 3
    /\ blocks[1] = blocks[2] /\ pairs[1].ctx = pairs[2].ctx
    /\ blocks[3] # blocks[1] /\ pairs[3].ctx # pairs[1].ctx

\* number of bytes the Split has taken from its source
Consumed == Len(B) - Len(source)

\* C18: a failed next call drops what it read.  The bytes read by calls
\* that returned an error are in no pair (bytes in pairs, bytes lost and
\* bytes unread add up to the source), a failed call makes no pair, and a
\* call that makes a pair makes it of the bytes just before the source's
\* next unread byte.
C18_FailedCallDropsBytes ==
    /\ Len(Flatten(blocks)) + splitHist.lost + Len(source) = Len(B)
    /\ source = Drop(B, Consumed)
    /\ lastNext.res \in {"ioerr", "encerr"} => lastNext.made = 0
    /\ lastNext.res = "ok" =>
           blocks[Len(blocks)] = SubSeq(B, Consumed - lastNext.got + 1, Consumed)

C18_Witness ==
    /\ lastNext.res = "ok" /\ ~splitHist.appended /\ ~splitHist.encerr
    /\ size = 2 /\ Len(B) = 3 /\ B[1] # B[2]
    /\ splitHist.lost = 1 /\ blocks = <<SubSeq(B, 2, 3)>>

\* C11: Exhausted is terminal.  Once a read call has seen the iterator
\* return None, every later read call returns Ok(0) (and so hands over no
\* bytes).  In phase "merge" every step is a read call.
C11_ExhaustedTerminal ==
    [][(phase = "merge" /\ mergeHist.sawNone) =>
           (lastRead'.res = "ok" /\ lastRead'.n = 0)]_vars

\* C15: pairs are pulled lazily and in order.  The pairs taken from the
\* iterator over all read calls are 1, 2, ..., ipos, each once; every pair
\* was taken with the current block used up and room left in the
\* destination; a read call on an empty destination takes none; and every
\* pair taken that holds bytes gave at least one byte to the call that took
\* it, so a call that fills its destination at the end of a block leaves
\* the next pair in the iterator.
C15_LazyInOrder ==
    phase = "merge" =>
        /\ mergeHist.pulls = [i \in 1 .. ipos |-> i]
        /\ lastRead.lazy
        /\ lastRead.destLen = 0 => lastRead.pulled = <<>>
        /\ { i \in 1 .. ipos : Plain(i).ok /\ Plain(i).data # <<>> }
               \subseteq mergeHist.origins

\* a call filled its destination exactly at the end of a block while the
\* iterator had more, after a call on an empty destination
C15_Witness ==
    /\ phase = "merge" /\ mergeHist.emptyDest
    /\ lastRead.res = "ok" /\ lastRead.n = lastRead.destLen /\ lastRead.n > 0
    /\ lastRead.pulled # <<>>
    /\ cidx = Len(curr) /\ ipos < Len(pairs) /\ ~(ipos \in gaps)

\* C16: cursor invariant.  In every state, and at the top of every turn of
\* the loop inside every read call, 0 <= cidx <= len(curr); no call reached
\* the copy with cidx >= len(curr) or bidx >= len(dest), which would index
\* out of bounds.
C16_CursorInBounds ==
    /\ 0 <= cidx /\ cidx <= Len(curr)
    /\ lastRead.safe
    /\ lastRead.res # "panic"

\* a call that copied bytes, then took a zero-length block, then failed on
\* the pair after it
C16_Witness ==
    /\ phase = "merge" /\ lastRead.res = "err" /\ lastRead.n > 0
    /\ \E i \in Range(lastRead.pulled) : Plain(i).ok /\ Plain(i).data = <<>>
    /\ curr = <<>>

\* the plaintext of the pairs taken so far, in order; a pair that does not
\* decrypt adds nothing
PulledPlain ==
    Flatten([i \in 1 .. ipos |-> IF Plain(i).ok THEN Plain(i).data ELSE <<>>])

\* C17: a failed read still consumes state.  A call that fails leaves the
\* failed pair taken from the iterator and the cursor at the end of the
\* block it had drained, and the bytes it copied are counted in no returned
\* length.  Every byte of the plaintext taken so far was copied exactly once,
\* in order, by a call that returned its count or by a call that failed; so
\* the bytes a failed call copied are delivered by no later call.
C17_FailedReadConsumes ==
    phase = "merge" =>
        /\ lastRead.res = "err" =>
               /\ lastRead.pulled # <<>>
               /\ lastRead.pulled[Len(lastRead.pulled)] = ipos
               /\ ipos \in mergeHist.failed
               /\ cidx = Len(curr)
        /\ mergeHist.copied \o Drop(curr, cidx) = PulledPlain
        /\ mergeHist.returned + mergeHist.unreported = Len(mergeHist.copied)

\* a call copied bytes and then failed, and a later call returned bytes of a
\* later pair
C17_Witness ==
    /\ phase = "merge" /\ mergeHist.unreported > 0
    /\ lastRead.res = "ok" /\ lastRead.n > 0
    /\ mergeHist.returned = lastRead.n

====
